---- MODULE Spec2Model ----
(***************************************************************************)
(* mu_db: a key-value store made of a flat data file (DataBase) and a      *)
(* directory of byte ranges (Index) persisted as text in an index file.    *)
(* Source: src/src/lib.rs.                                                 *)
(*                                                                         *)
(* Strings are modelled as the sequence of their UTF-8 bytes (a Rust       *)
(* String), the data file as a sequence of bytes, the index file as a      *)
(* sequence of one-character strings.                                      *)
(***************************************************************************)
EXTENDS Integers, Sequences, FiniteSets, TLC

(* ------------------------------ bounds ------------------------------- *)

\* number of distinct keys the callers use
NumKeys == 3

\* longest value, in bytes, the callers insert
MaxValLen == 2

\* longest data file the callers let the store grow to, in bytes
MaxFileLen == 5

\* number of distinct keys, and longest data file, in the runs that also
\* use the raw file calls
NumRawKeys == 2

MaxRawLen == 3

\* longest data file in the runs of two threads
MaxConcLen == 2

\* longest data file in the runs with get
MaxGetLen == 4

\* largest range offset and longest entry sequence handed to the Index
\* directly (set_all_entries)
MaxOffset == 10

MaxCodecLen == 2

(* ----------------------------- alphabets ----------------------------- *)

\* keys, as sequences of characters; none holds '=', '_' or a newline
AllKeys == << <<"a">>, <<"k", "1">>, <<"b">>, <<"c">>, <<"d">> >>

Keys == { AllKeys[i] : i \in 1..NumKeys }

\* the characters of the values: 'a' (1 byte) and U+00E9 (2 bytes: C3 A9)
Chars == { <<97>>, <<195, 169>> }

\* U+FFFD REPLACEMENT CHARACTER, as UTF-8
REPLACEMENT == <<239, 191, 189>>

RECURSIVE StringsOfLen(_)
StringsOfLen(n) ==
    IF n = 0 THEN { <<>> }
    ELSE UNION { { c \o s : s \in StringsOfLen(n - Len(c)) } :
                 c \in { x \in Chars : Len(x) <= n } }

\* every &str of at most MaxValLen bytes over Chars
Values == UNION { StringsOfLen(n) : n \in 0..MaxValLen }

\* Option and Result values, and the panic of an unwrap
None == <<"None">>

Some(x) == <<"Some", x>>

Ok(x) == <<"Ok", x>>

Err == <<"Err">>

Panic == <<"Panic">>

(* ------------------------- sequence helpers -------------------------- *)

\* Vec::insert(i, x) with 0-based i
VecInsert(v, i, x) == SubSeq(v, 1, i) \o <<x>> \o SubSeq(v, i + 1, Len(v))

\* Vec::remove(i) with 0-based i
VecRemove(v, i) == SubSeq(v, 1, i) \o SubSeq(v, i + 2, Len(v))

\* v[i] = x with 0-based i
VecSet(v, i, x) == [v EXCEPT ![i + 1] = x]

RECURSIVE Repeat(_, _)
Repeat(x, n) == IF n <= 0 THEN <<>> ELSE <<x>> \o Repeat(x, n - 1)

RECURSIVE Concat(_)
Concat(ss) == IF ss = <<>> THEN <<>> ELSE Head(ss) \o Concat(Tail(ss))

Max(a, b) == IF a >= b THEN a ELSE b

(* ------------------------------- files ------------------------------- *)

\* a file is a sequence of units; a write at pos past the end leaves a hole
\* that reads as `zero`
FileWrite(bytes, pos, content, zero) ==
    IF content = <<>> THEN bytes
    ELSE LET padded == IF pos > Len(bytes)
                       THEN bytes \o Repeat(zero, pos - Len(bytes))
                       ELSE bytes
         IN  SubSeq(padded, 1, pos) \o content
               \o SubSeq(padded, pos + Len(content) + 1, Len(padded))

\* File::set_len: truncate, or extend with `zero`
FileSetLen(bytes, len, zero) ==
    IF len <= Len(bytes) THEN SubSeq(bytes, 1, len)
    ELSE bytes \o Repeat(zero, len - Len(bytes))

(* ---------------------------- IndexEntry ----------------------------- *)

IndexEntry(k, s, e) == [key |-> k, start |-> s, end |-> e]

\* IndexEntry::size; usize subtraction (an underflow is studied separately)
size(e) == e.end - e.start

(* ------------------- persistence format of the Index ------------------ *)

Digits == <<"0", "1", "2", "3", "4", "5", "6", "7", "8", "9">>

\* usize::to_string: the decimal digits of n
RECURSIVE to_string(_)
to_string(n) ==
    IF n < 10 THEN <<Digits[n + 1]>>
    ELSE to_string(n \div 10) \o <<Digits[(n % 10) + 1]>>

IsDigit(c) == \E d \in 1..10 : Digits[d] = c

DigitVal(c) == (CHOOSE d \in 1..10 : Digits[d] = c) - 1

RECURSIVE ParseDigits(_, _)
ParseDigits(s, acc) ==
    IF s = <<>> THEN acc
    ELSE ParseDigits(Tail(s), acc * 10 + DigitVal(Head(s)))

\* str::parse::<usize>: Panic stands for the unwrap of an Err
parse_usize(s) ==
    IF s # <<>> /\ \A i \in 1..Len(s) : IsDigit(s[i])
    THEN Ok(ParseDigits(s, 0))
    ELSE Panic

\* str::split(sep): the pieces between the occurrences of sep
RECURSIVE SplitFrom(_, _, _)
SplitFrom(s, sep, cur) ==
    IF s = <<>> THEN <<cur>>
    ELSE IF Head(s) = sep THEN <<cur>> \o SplitFrom(Tail(s), sep, <<>>)
    ELSE SplitFrom(Tail(s), sep, Append(cur, Head(s)))

split(s, sep) == SplitFrom(s, sep, <<>>)

IsWhitespace(c) == c \in {"\n", " ", "\t", "\r"}

\* str::trim_end
RECURSIVE trim_end(_)
trim_end(s) ==
    IF s # <<>> /\ IsWhitespace(s[Len(s)])
    THEN trim_end(SubSeq(s, 1, Len(s) - 1))
    ELSE s

\* one entry as a line: key '=' start '_' end '\n'
EntryLine(e) == e.key \o <<"=">> \o to_string(e.start) \o <<"_">>
                  \o to_string(e.end) \o <<"\n">>

\* Index::index_to_string
index_to_string(es) == Concat([i \in 1..Len(es) |-> EntryLine(es[i])])

\* the closure of parse_index: one line to an IndexEntry, or Panic where
\* the code indexes out of bounds or unwraps a parse error
ParseLine(line) ==
    LET entry == split(line, "=") IN
    IF Len(entry) < 2 THEN Panic
    ELSE LET range == split(entry[2], "_") IN
         IF Len(range) < 2 THEN Panic
         ELSE LET s == parse_usize(range[1])
                  e == parse_usize(range[2])
              IN  IF s = Panic \/ e = Panic THEN Panic
                  ELSE Ok(IndexEntry(entry[1], s[2], e[2]))

\* mutant of parse_index: the trailing newline is not trimmed
parse_index_no_trim(file) ==
    IF file = <<>> THEN Ok(<<>>)
    ELSE LET lines  == split(file, "\n")
             parsed == [i \in 1..Len(lines) |-> ParseLine(lines[i])]
         IN  IF \E i \in 1..Len(parsed) : parsed[i] = Panic THEN Panic
             ELSE Ok([i \in 1..Len(parsed) |-> parsed[i][2]])

\* Index::parse_index: Ok(entries), or Panic
parse_index(file) ==
    IF file = <<>> THEN Ok(<<>>)
    ELSE LET lines  == split(trim_end(file), "\n")
             parsed == [i \in 1..Len(lines) |-> ParseLine(lines[i])]
         IN  IF \E i \in 1..Len(parsed) : parsed[i] = Panic THEN Panic
             ELSE Ok([i \in 1..Len(parsed) |-> parsed[i][2]])

(* -------------------------------- Index ------------------------------- *)

\* An Index value `self` is [entries, writer]: the Vec<IndexEntry> and the
\* index file behind the writer, [bytes, pos] (content and file offset).
\* The writes below go to the File itself (BufWriter::get_mut), so nothing
\* waits in the BufWriter.

NUL == "\\0"

\* Index::is_empty
index_is_empty(self) == self.entries = <<>>

\* mutant of write_index: the file is not truncated before the write
write_index_no_truncate(self) ==
    LET string  == index_to_string(self.entries)
        seeked  == [self.writer EXCEPT !.pos = 0]
        written == [bytes |-> FileWrite(seeked.bytes, seeked.pos, string, NUL),
                    pos   |-> seeked.pos + Len(string)]
    IN  [self EXCEPT !.writer = written]

\* Index::write_index: seek to 0, truncate, write the serialization
write_index(self) ==
    LET string   == index_to_string(self.entries)
        seeked   == [self.writer EXCEPT !.pos = 0]
        emptied  == [seeked EXCEPT !.bytes = FileSetLen(@, 0, NUL)]
        written  == [bytes |-> FileWrite(emptied.bytes, emptied.pos, string, NUL),
                     pos   |-> emptied.pos + Len(string)]
    IN  [self EXCEPT !.writer = written]

\* the 0-based position of the first entry with this key, or -1
Position(es, key) ==
    IF \E i \in 1..Len(es) : es[i].key = key
    THEN (CHOOSE i \in 1..Len(es) :
             /\ es[i].key = key
             /\ \A j \in 1..(i - 1) : es[j].key # key) - 1
    ELSE -1

\* mutant of GapFits: the gap is measured from the start of entry i
GapFits_from_start(es, i, entry_size) ==
    es[i + 2].start - es[i + 1].start >= entry_size

\* `entries[i + 1].range.start - entries[i].range.end >= entry_size` for the
\* 0-based i. The subtraction is on usize: were start below end, it would
\* wrap to a value near 2^64 (release build), above every size in reach.
GapFits(es, i, entry_size) ==
    LET next == es[i + 2]
        curr == es[i + 1]
    IN  IF next.start >= curr.end
        THEN next.start - curr.end >= entry_size
        ELSE TRUE

\* mutant of alloc_entry: the gap before the first entry is not looked at
alloc_entry_no_front(self, entry_size, key) ==
    LET es == self.entries IN
    IF es # <<>> /\ \E i \in 0..(Len(es) - 2) : GapFits(es, i, entry_size)
    THEN LET i     == CHOOSE j \in 0..(Len(es) - 2) :
                         /\ GapFits(es, j, entry_size)
                         /\ \A h \in 0..(j - 1) : ~GapFits(es, h, entry_size)
             bind  == es[i + 1]
             entry == IndexEntry(key, bind.end, bind.end + entry_size)
         IN  [self |-> write_index([self EXCEPT !.entries = VecInsert(es, i + 1, entry)]),
              ret  |-> entry]
    ELSE LET range_start == IF es # <<>> THEN es[Len(es)].end ELSE 0
             entry       == IndexEntry(key, range_start, range_start + entry_size)
         IN  [self |-> write_index([self EXCEPT !.entries = Append(es, entry)]),
              ret  |-> entry]

\* mutant of alloc_entry: best fit, the entry goes into the tightest gap
\* before an entry that holds it (the earliest one of equal gaps)
alloc_entry_best_fit(self, entry_size, key) ==
    LET es         == self.entries
        gap_start(i) == IF i = 0 THEN 0 ELSE es[i].end
        gap_size(i)  == es[i + 1].start - gap_start(i)
        fitting    == { i \in 0..(Len(es) - 1) : gap_size(i) >= entry_size }
    IN  IF fitting # {}
        THEN LET i     == CHOOSE c \in fitting :
                             \A d \in fitting :
                                 \/ gap_size(c) < gap_size(d)
                                 \/ (gap_size(c) = gap_size(d) /\ c <= d)
                 entry == IndexEntry(key, gap_start(i), gap_start(i) + entry_size)
             IN  [self |-> write_index([self EXCEPT !.entries = VecInsert(es, i, entry)]),
                  ret  |-> entry]
        ELSE LET range_start == IF es # <<>> THEN es[Len(es)].end ELSE 0
                 entry       == IndexEntry(key, range_start, range_start + entry_size)
             IN  [self |-> write_index([self EXCEPT !.entries = Append(es, entry)]),
                  ret  |-> entry]

\* mutant of alloc_entry: the entry that goes into a gap is pushed to the
\* end of the Vec
alloc_entry_push(self, entry_size, key) ==
    LET es == self.entries IN
    IF es # <<>> /\ es[1].start >= entry_size
    THEN LET entry == IndexEntry(key, 0, entry_size) IN
         [self |-> write_index([self EXCEPT !.entries = Append(es, entry)]),
          ret  |-> entry]
    ELSE IF es # <<>> /\ \E i \in 0..(Len(es) - 2) : GapFits(es, i, entry_size)
    THEN LET i     == CHOOSE j \in 0..(Len(es) - 2) :
                         /\ GapFits(es, j, entry_size)
                         /\ \A h \in 0..(j - 1) : ~GapFits(es, h, entry_size)
             bind  == es[i + 1]
             entry == IndexEntry(key, bind.end, bind.end + entry_size)
         IN  [self |-> write_index([self EXCEPT !.entries = Append(es, entry)]),
              ret  |-> entry]
    ELSE LET range_start == IF es # <<>> THEN es[Len(es)].end ELSE 0
             entry       == IndexEntry(key, range_start, range_start + entry_size)
         IN  [self |-> write_index([self EXCEPT !.entries = Append(es, entry)]),
              ret  |-> entry]

\* Index::alloc_entry: [self, ret], the Index afterwards and the new entry
alloc_entry(self, entry_size, key) ==
    LET es == self.entries IN
    IF es # <<>> /\ es[1].start >= entry_size
    THEN LET entry == IndexEntry(key, 0, entry_size) IN
         [self |-> write_index([self EXCEPT !.entries = VecInsert(es, 0, entry)]),
          ret  |-> entry]
    ELSE IF es # <<>> /\ \E i \in 0..(Len(es) - 2) : GapFits(es, i, entry_size)
    THEN LET i     == CHOOSE j \in 0..(Len(es) - 2) :
                         /\ GapFits(es, j, entry_size)
                         /\ \A h \in 0..(j - 1) : ~GapFits(es, h, entry_size)
             bind  == es[i + 1]
             entry == IndexEntry(key, bind.end, bind.end + entry_size)
         IN  [self |-> write_index([self EXCEPT !.entries = VecInsert(es, i + 1, entry)]),
              ret  |-> entry]
    ELSE LET range_start == IF es # <<>> THEN es[Len(es)].end ELSE 0
             entry       == IndexEntry(key, range_start, range_start + entry_size)
         IN  [self |-> write_index([self EXCEPT !.entries = Append(es, entry)]),
              ret  |-> entry]

\* the subtractions `entries[i + 1].range.start - entries[i].range.end`
\* that the gap scan of alloc_entry evaluates, as <<minuend, subtrahend>>:
\* the scan runs when the directory is not empty and the first entry starts
\* below entry_size, and it ends with the first pair whose test is true
AllocSubtractions(es, entry_size) ==
    IF es = <<>> \/ es[1].start >= entry_size THEN {}
    ELSE { <<es[i + 2].start, es[i + 1].end>> :
             i \in { j \in 0..(Len(es) - 2) :
                        \A h \in 0..(j - 1) : ~GapFits(es, h, entry_size) } }

\* mutant of insert_entry: a longer value grows the old range in place
insert_entry_grow_in_place(self, entry_size, key) ==
    LET es == self.entries
        i  == Position(es, key)
    IN  IF i >= 0
        THEN LET old   == es[i + 1]
                 entry == IndexEntry(key, old.start, old.start + entry_size)
             IN  [self |-> write_index([self EXCEPT !.entries = VecSet(es, i, entry)]),
                  ret  |-> entry]
        ELSE alloc_entry(self, entry_size, key)

\* mutant of insert_entry: a shorter value keeps the old range
insert_entry_keep_range(self, entry_size, key) ==
    LET es == self.entries
        i  == Position(es, key)
    IN  IF i >= 0
        THEN LET old == es[i + 1] IN
             IF size(old) < entry_size
             THEN alloc_entry([self EXCEPT !.entries = VecRemove(es, i)],
                              entry_size, key)
             ELSE [self |-> write_index(self), ret |-> old]
        ELSE alloc_entry(self, entry_size, key)

\* mutant of insert_entry: every overwrite allocates anew
insert_entry_always_realloc(self, entry_size, key) ==
    LET es == self.entries
        i  == Position(es, key)
    IN  IF i >= 0
        THEN alloc_entry([self EXCEPT !.entries = VecRemove(es, i)],
                         entry_size, key)
        ELSE alloc_entry(self, entry_size, key)

\* mutant of insert_entry: a longer value leaves the old entry in place
insert_entry_keep_old(self, entry_size, key) ==
    LET es == self.entries
        i  == Position(es, key)
    IN  IF i >= 0
        THEN LET old == es[i + 1] IN
             IF size(old) < entry_size
             THEN alloc_entry(self, entry_size, key)
             ELSE LET entry == IndexEntry(key, old.start, old.start + entry_size) IN
                  [self |-> write_index([self EXCEPT !.entries = VecSet(es, i, entry)]),
                   ret  |-> entry]
        ELSE alloc_entry(self, entry_size, key)

\* Index::insert_entry: [self, ret]
insert_entry(self, entry_size, key) ==
    LET es == self.entries
        i  == Position(es, key)
    IN  IF i >= 0
        THEN LET old == es[i + 1] IN
             IF size(old) < entry_size
             THEN alloc_entry([self EXCEPT !.entries = VecRemove(es, i)],
                              entry_size, key)
             ELSE LET entry == IndexEntry(key, old.start, old.start + entry_size) IN
                  [self |-> write_index([self EXCEPT !.entries = VecSet(es, i, entry)]),
                   ret  |-> entry]
        ELSE alloc_entry(self, entry_size, key)

\* Index::remove_entry: [self, ret]
remove_entry(self, key) ==
    LET es == self.entries
        i  == Position(es, key)
    IN  IF i >= 0
        THEN [self |-> write_index([self EXCEPT !.entries = VecRemove(es, i)]),
              ret  |-> Some(es[i + 1])]
        ELSE [self |-> self, ret |-> None]

\* Index::get_entry
get_entry(self, key) ==
    LET i == Position(self.entries, key) IN
    IF i >= 0 THEN Some(self.entries[i + 1]) ELSE None

\* Index::clear_all: the file is truncated without a seek
index_clear_all(self) ==
    [entries |-> <<>>,
     writer  |-> [self.writer EXCEPT !.bytes = FileSetLen(@, 0, NUL)]]

\* Index::set_all_entries
set_all_entries(self, es) == write_index([self EXCEPT !.entries = es])

\* Index::new on an index file that holds `bytes`: the file is read to its
\* end and parsed; Ok(Index), or Panic
index_new(bytes) ==
    LET parsed == parse_index(bytes) IN
    IF parsed = Panic THEN Panic
    ELSE Ok([entries |-> parsed[2],
             writer  |-> [bytes |-> bytes, pos |-> Len(bytes)]])

\* the loop of shrink_entries, from the 0-based i on: entry i + 1 is moved
\* to the end of the already moved entry i
RECURSIVE ShrinkLoop(_, _)
ShrinkLoop(es, i) ==
    IF i >= Len(es) - 1 THEN es
    ELSE LET curr == es[i + 1]
             next == es[i + 2]
             \* next.start - curr.end, then next.end -= diff, next.start -= diff
             \* (usize; with wrapping the two subtractions give the same ranges)
             moved == IF next.start # curr.end
                      THEN IndexEntry(next.key, curr.end,
                                      next.end - next.start + curr.end)
                      ELSE next
         IN  ShrinkLoop(VecSet(es, i + 1, moved), i + 1)

\* mutant of shrink_entries: the first entry is left where it is
shrink_entries_keep_first(self) ==
    LET old == self.entries IN
    IF old = <<>> THEN [self |-> self, ret |-> old]
    ELSE [self |-> write_index([self EXCEPT !.entries = ShrinkLoop(old, 0)]),
          ret  |-> old]

\* Index::shrink_entries: [self, ret], ret the entries before the call
shrink_entries(self) ==
    LET old == self.entries IN
    IF old = <<>> THEN [self |-> self, ret |-> old]
    ELSE LET first  == old[1]
             first0 == IF first.start # 0
                       THEN IndexEntry(first.key, 0, first.end - first.start)
                       ELSE first
             es     == ShrinkLoop(VecSet(old, 0, first0), 0)
         IN  [self |-> write_index([self EXCEPT !.entries = es]), ret |-> old]

\* the subtractions that shrink_entries evaluates on the entries es, as
\* <<minuend, subtrahend>>: `first.end -= first.start`, and for every pair
\* `next.start - curr.end` with curr as the loop has moved it and next as
\* it was, then `next.end -= diff` and `next.start -= diff`
ShrinkSubtractions(es) ==
    IF es = <<>> THEN {}
    ELSE LET moved == shrink_entries([entries |-> es,
                                      writer  |-> [bytes |-> <<>>, pos |-> 0]]).self.entries
         IN  (IF es[1].start # 0 THEN { <<es[1].end, es[1].start>> } ELSE {})
             \cup { <<es[i + 1].start, moved[i].end>> : i \in 1..(Len(es) - 1) }
             \cup UNION { { <<es[i + 1].end, es[i + 1].start - moved[i].end>>,
                            <<es[i + 1].start, es[i + 1].start - moved[i].end>> } :
                          i \in { j \in 1..(Len(es) - 1) :
                                     es[j + 1].start >= moved[j].end } }

(* ------------------------------ DataBase ------------------------------ *)

IsCont(b) == b >= 128 /\ b <= 191

\* the length of the maximal valid or invalid prefix of s (s non-empty) and
\* whether it is a valid character: UTF-8 of one to three bytes (no byte of
\* a four-byte sequence occurs in the alphabets used)
Utf8Chunk(s) ==
    LET b == s[1] IN
    IF b < 128 THEN [len |-> 1, valid |-> TRUE]
    ELSE IF b >= 194 /\ b <= 223
    THEN IF Len(s) >= 2 /\ IsCont(s[2])
         THEN [len |-> 2, valid |-> TRUE]
         ELSE [len |-> 1, valid |-> FALSE]
    ELSE IF b >= 224 /\ b <= 239
    THEN LET lo == IF b = 224 THEN 160 ELSE 128
             hi == IF b = 237 THEN 159 ELSE 191
         IN  IF Len(s) >= 2 /\ s[2] >= lo /\ s[2] <= hi
             THEN IF Len(s) >= 3 /\ IsCont(s[3])
                  THEN [len |-> 3, valid |-> TRUE]
                  ELSE [len |-> 2, valid |-> FALSE]
             ELSE [len |-> 1, valid |-> FALSE]
    ELSE [len |-> 1, valid |-> FALSE]

\* String::from_utf8_lossy: each maximal invalid sequence becomes U+FFFD
RECURSIVE from_utf8_lossy(_)
from_utf8_lossy(v) ==
    IF v = <<>> THEN <<>>
    ELSE LET c == Utf8Chunk(v) IN
         (IF c.valid THEN SubSeq(v, 1, c.len) ELSE REPLACEMENT)
           \o from_utf8_lossy(SubSeq(v, c.len + 1, Len(v)))

\* DataBase::buf_len
buf_len(f) == Len(f)

\* DataBase::is_buf_empty
is_buf_empty(f) == buf_len(f) = 0

\* mutant of read_at: a read that meets the end of the file returns the
\* bytes there are (read in place of read_exact)
read_at_short(f, start, sz) ==
    Ok(from_utf8_lossy(SubSeq(f, start + 1, IF start + sz > Len(f)
                                            THEN Len(f) ELSE start + sz)))

\* DataBase::read_at on the data file f: Ok(String), or Err when read_exact
\* meets the end of the file
read_at(f, start, sz) ==
    IF sz > 0 /\ start + sz > Len(f) THEN Err
    ELSE Ok(from_utf8_lossy(SubSeq(f, start + 1, start + sz)))

\* mutant of write_at: the bytes go to the end of the file (no seek)
write_at_no_seek(f, start, content) == FileWrite(f, Len(f), content, 0)

\* mutant of write_at: the file ends where the written bytes end
write_at_truncating(f, start, content) ==
    FileSetLen(FileWrite(f, start, content, 0), start + Len(content), 0)

\* DataBase::write_at on the data file f (seek, write_all, flush): the file
\* afterwards; bytes between the old end and start read as 0
write_at(f, start, content) == FileWrite(f, start, content, 0)

\* DataBase::set_buf_len
set_buf_len(f, len) == FileSetLen(f, len, 0)

\* A DataBase value `self` is [index, file].

\* DataBase::is_empty
is_empty(self) == index_is_empty(self.index)

\* DataBase::insert
insert(self, key, value) ==
    LET value_len == Len(value)
        r         == insert_entry(self.index, value_len, key)
    IN  [index |-> r.self,
         file  |-> write_at(self.file, r.ret.start, value)]

\* BufReader::read_exact on the data file f with the shared offset at pos:
\* Ok(String) of the sz bytes from pos on, or Err at the end of the file
read_exact(f, pos, sz) ==
    IF sz > 0 /\ pos + sz > Len(f) THEN Err
    ELSE Ok(from_utf8_lossy(SubSeq(f, pos + 1, pos + sz)))

\* the shared offset after that read_exact: the BufReader, its buffer
\* empty after the seek, fills it with one read of the rest of the file
\* (the file is shorter than the buffer)
read_exact_offset(f, pos) == IF pos >= Len(f) THEN pos ELSE Len(f)

\* DataBase::write_at on the data file f when the seek, the write or the
\* flush returns an Err: the first k bytes of content, k < len(content),
\* have reached the file (none when the seek fails)
write_at_fails(f, start, content, k) ==
    FileWrite(f, start, SubSeq(content, 1, k), 0)

\* mutant of insert_write_fails: the Index is put back as it was
insert_write_fails_rollback(self, key, value, k) ==
    LET value_len == Len(value)
        r         == insert_entry(self.index, value_len, key)
    IN  [index |-> write_index(self.index),
         file  |-> write_at_fails(self.file, r.ret.start, value, k)]

\* DataBase::insert when its write_at returns an Err, up to the unwrap
\* that panics
insert_write_fails(self, key, value, k) ==
    LET value_len == Len(value)
        r         == insert_entry(self.index, value_len, key)
    IN  [index |-> r.self,
         file  |-> write_at_fails(self.file, r.ret.start, value, k)]

\* mutant of get: the end of the range is read as its size
get_size_is_end(self, key) ==
    LET index_entry == get_entry(self.index, key) IN
    IF index_entry = None THEN None
    ELSE LET e == index_entry[2]
             r == read_at(self.file, e.start, e.end)
         IN  IF r = Err THEN Panic ELSE Some(r[2])

\* DataBase::get: None, Some(String), or Panic (the unwrap of a failed read)
get(self, key) ==
    LET index_entry == get_entry(self.index, key) IN
    IF index_entry = None THEN None
    ELSE LET e == index_entry[2]
             r == read_at(self.file, e.start, size(e))
         IN  IF r = Err THEN Panic ELSE Some(r[2])

\* mutant of remove: the file is cut behind the last entry that is left
remove_truncating(self, key) ==
    LET ix == remove_entry(self.index, key).self
        es == ix.entries
    IN  [index |-> ix,
         file  |-> set_buf_len(self.file,
                               IF es = <<>> THEN 0 ELSE es[Len(es)].end)]

\* DataBase::remove
remove(self, key) == [self EXCEPT !.index = remove_entry(self.index, key).self]

\* mutant of clear_all: the data file keeps its length
clear_all_index_only(self) ==
    [index |-> index_clear_all(self.index), file |-> self.file]

\* DataBase::clear_all
clear_all(self) ==
    [index |-> index_clear_all(self.index),
     file  |-> set_buf_len(self.file, 0)]

\* mutant of CopyLoop: the bytes are read at the new offset
RECURSIVE CopyLoop_reads_new(_, _, _, _)
CopyLoop_reads_new(f, olds, news, i) ==
    IF i > Len(olds) \/ i > Len(news) THEN [file |-> f, panicked |-> FALSE]
    ELSE IF olds[i].start # news[i].start
    THEN LET old_string == read_at(f, news[i].start, size(olds[i])) IN
         IF old_string = Err THEN [file |-> f, panicked |-> TRUE]
         ELSE CopyLoop_reads_new(write_at(f, news[i].start, old_string[2]),
                                 olds, news, i + 1)
    ELSE CopyLoop_reads_new(f, olds, news, i + 1)

\* mutant of CopyLoop: the pairs are copied from the last to the first
RECURSIVE CopyLoop_descending(_, _, _, _)
CopyLoop_descending(f, olds, news, i) ==
    IF i > Len(olds) \/ i > Len(news) THEN [file |-> f, panicked |-> FALSE]
    ELSE LET later == CopyLoop_descending(f, olds, news, i + 1) IN
         IF later.panicked \/ olds[i].start = news[i].start THEN later
         ELSE LET old_string == read_at(later.file, olds[i].start, size(olds[i])) IN
              IF old_string = Err THEN [file |-> later.file, panicked |-> TRUE]
              ELSE [file     |-> write_at(later.file, news[i].start, old_string[2]),
                    panicked |-> FALSE]

\* the copy loop of shrink over zip(old_entries, entries), from the 1-based
\* i on: [file, panicked]
RECURSIVE CopyLoop(_, _, _, _)
CopyLoop(f, olds, news, i) ==
    IF i > Len(olds) \/ i > Len(news) THEN [file |-> f, panicked |-> FALSE]
    ELSE IF olds[i].start # news[i].start
    THEN LET old_string == read_at(f, olds[i].start, size(olds[i])) IN
         IF old_string = Err THEN [file |-> f, panicked |-> TRUE]
         ELSE CopyLoop(write_at(f, news[i].start, old_string[2]), olds, news, i + 1)
    ELSE CopyLoop(f, olds, news, i + 1)

\* mutant of shrink: the file is cut at the end of the last entry as it
\* was before the compaction
shrink_old_last(self) ==
    IF index_is_empty(self.index)
    THEN [self |-> clear_all(self), panicked |-> FALSE]
    ELSE LET r      == shrink_entries(self.index)
             news   == r.self.entries
             copied == CopyLoop(self.file, r.ret, news, 1)
         IN  IF copied.panicked
             THEN [self |-> [index |-> r.self, file |-> copied.file],
                   panicked |-> TRUE]
             ELSE [self |-> [index |-> r.self,
                             file  |-> set_buf_len(copied.file, r.ret[Len(r.ret)].end)],
                   panicked |-> FALSE]

\* DataBase::shrink: [self, panicked]
shrink(self) ==
    IF index_is_empty(self.index)
    THEN [self |-> clear_all(self), panicked |-> FALSE]
    ELSE LET r      == shrink_entries(self.index)
             news   == r.self.entries
             copied == CopyLoop(self.file, r.ret, news, 1)
         IN  IF copied.panicked
             THEN [self |-> [index |-> r.self, file |-> copied.file],
                   panicked |-> TRUE]
             ELSE [self |-> [index |-> r.self,
                             file  |-> set_buf_len(copied.file, news[Len(news)].end)],
                   panicked |-> FALSE]

\* DataBase::shrink of a non-empty directory when the write_at of the
\* 1-based pair j, one whose start moves, returns an Err after k bytes, up
\* to the unwrap that panics
shrink_write_fails(self, j, k) ==
    LET r          == shrink_entries(self.index)
        olds       == r.ret
        news       == r.self.entries
        copied     == CopyLoop(self.file, SubSeq(olds, 1, j - 1),
                               SubSeq(news, 1, j - 1), 1)
        old_string == read_at(copied.file, olds[j].start, size(olds[j]))
    IN  [index |-> r.self,
         file  |-> IF copied.panicked \/ old_string = Err THEN copied.file
                   ELSE write_at_fails(copied.file, news[j].start, old_string[2], k)]

(* ------------------------------- state -------------------------------- *)

VARIABLES
    entries,   \* Index.entries: the directory, a sequence of IndexEntry
    writer,    \* the index file behind Index.writer: [bytes, pos]
    file,      \* the data file: its bytes
    last,      \* history: the operation that led to this state
    cursor,    \* the offset of the data file's open file description, which
               \* DataBase.reader and DataBase.writer share (File::try_clone)
    threads,   \* the calls of the two threads that share the DataBase
    clone      \* <<es, touched>>: the entries of a clone of the Index and
               \* (history) the copies, 1 the Index and 2 its clone, that
               \* changed their entries since; <<>>: no clone

vars == <<entries, writer, file, last, cursor, threads, clone>>

\* Every operation of one thread seeks before it transfers, so the offset
\* left by one call is never used by the next: `cursor` is followed only
\* where two threads share the DataBase.
\* threads.r is the thread that calls read_at, threads.w the one that
\* calls write_at; reader_lock and writer_lock are the owners of the two
\* Mutexes of the DataBase
IdleReader == [pc |-> "idle", start |-> 0, size |-> 0, ret |-> <<>>]

IdleWriter == [pc |-> "idle", start |-> 0, content |-> <<>>]

NoThreads == [r |-> IdleReader, w |-> IdleWriter,
              reader_lock |-> "none", writer_lock |-> "none"]

\* one caller, one Index: no call is under way, there is no clone
Sequential == UNCHANGED <<cursor, threads, clone>>

\* the DataBase value of the current state
DB == [index |-> [entries |-> entries, writer |-> writer], file |-> file]

\* the gap the 0-based position i of `es` lies in once its entry is gone:
\* <<start, end>>, or <<start>> for the gap after the last entry
GapAt(es, i) ==
    LET gstart == IF i = 0 THEN 0 ELSE es[i].end IN
    IF i >= Len(es) THEN <<gstart>> ELSE <<gstart, es[i + 1].start>>

\* last.at holds the offset and size arguments of a raw call
NoOp == [op |-> "new", key |-> <<>>, value |-> <<>>, branch |-> "",
         gap |-> <<>>, again |-> FALSE, moved |-> FALSE, at |-> <<>>]

\* DataBase::new on a path where no file exists yet
Init ==
    /\ entries = <<>>
    /\ writer = [bytes |-> <<>>, pos |-> 0]
    /\ file = <<>>
    /\ last = NoOp
    /\ cursor = 0
    /\ threads = NoThreads
    /\ clone = <<>>

Install(self) ==
    /\ entries' = self.index.entries
    /\ writer' = self.index.writer
    /\ file' = self.file

\* which branch of insert_entry a call takes
Branch(es, key, entry_size) ==
    LET i == Position(es, key) IN
    IF i < 0 THEN "new"
    ELSE IF size(es[i + 1]) < entry_size THEN "grow"
    ELSE "reuse"

\* db.insert(key, value); last.gap keeps the gap of a remove that came
\* directly before the insert of a key that is not in the directory
Insert(key, value) ==
    \E self \in { insert(DB, key, value) } :
        /\ buf_len(self.file) <= MaxFileLen
        /\ Install(self)
        /\ last' = [NoOp EXCEPT
                      !.op = "insert", !.key = key, !.value = value,
                      !.branch = Branch(entries, key, Len(value)),
                      !.gap = IF last.op = "remove" /\ Position(entries, key) < 0
                              THEN last.gap ELSE <<>>]

\* db.remove(key); last.gap is the gap the removed entry leaves
Remove(key) ==
    LET i == Position(entries, key) IN
    /\ Install(remove(DB, key))
    /\ last' = [NoOp EXCEPT
                  !.op = "remove", !.key = key,
                  !.branch = IF i >= 0 THEN "found" ELSE "absent",
                  !.gap = IF i >= 0 THEN GapAt(VecRemove(entries, i), i) ELSE <<>>]

\* db.clear_all()
ClearAll ==
    /\ Install(clear_all(DB))
    /\ last' = [NoOp EXCEPT !.op = "clear_all"]

\* db.shrink(); last.again tells a shrink that directly follows a shrink,
\* last.moved one that relocated an entry
Shrink ==
    \E r \in { shrink(DB) } :
        /\ Install(r.self)
        /\ last' = [NoOp EXCEPT
                      !.op = "shrink",
                      !.branch = IF r.panicked THEN "panic"
                                 ELSE IF entries = <<>> THEN "empty" ELSE "compact",
                      !.again = (last.op = "shrink"),
                      !.moved = \E i \in 1..Len(entries) :
                                   r.self.index.entries[i].start # entries[i].start]

\* a panic ends the process
Running == last.branch # "panic"

Next ==
    /\ Running
    /\ \/ \E key \in Keys, value \in Values : Insert(key, value)
       \/ \E key \in Keys : Remove(key)
       \/ ClearAll
       \/ Shrink
    /\ Sequential

Spec == Init /\ [][Next]_vars

(* ------------------------- observation helpers ------------------------ *)

Has(es, key) == Position(es, key) >= 0

EntryOf(es, key) == es[Position(es, key) + 1]

KeysOf(es) == { es[i].key : i \in 1..Len(es) }

Without(es, key) == SelectSeq(es, LAMBDA e : e.key # key)

RECURSIVE SumSizes(_)
SumSizes(es) == IF es = <<>> THEN 0 ELSE size(Head(es)) + SumSizes(Tail(es))

\* the directory has no gap: it starts at 0 and every entry starts where
\* its predecessor ends
NoGaps(es) ==
    /\ es # <<>> => es[1].start = 0
    /\ \A i \in 1..(Len(es) - 1) : es[i + 1].start = es[i].end

\* half-open ranges [a.start, a.end) and [b.start, b.end) share no byte
Disjoint(a, b) == a.end <= b.start \/ b.end <= a.start

\* the gaps of a directory in ascending order: before the first entry,
\* between adjacent entries, after the last entry
GapSeq(es) == [i \in 1..(Len(es) + 1) |-> GapAt(es, i - 1)]

\* a value of n bytes fits the gap g
FitsGap(g, n) == Len(g) = 1 \/ g[2] - g[1] >= n

\* the start of the earliest gap of es that holds n bytes
FirstFitStart(es, n) ==
    LET gs == GapSeq(es)
        i  == CHOOSE j \in 1..Len(gs) :
                 /\ FitsGap(gs[j], n)
                 /\ \A h \in 1..(j - 1) : ~FitsGap(gs[h], n)
    IN  gs[i][1]

(* ------------------------------- claims ------------------------------- *)

\* C1 (round trip): directly after insert(key, value), get(key) returns
\* Some(value), whichever branch the insert took and also for the empty value.
C1_RoundTrip ==
    last.op = "insert" => get(DB, last.key) = Some(last.value)

\* C1 witness: an existing key was given a longer, non-empty value while
\* other keys are in the directory, and get returns it
C1_Witness ==
    /\ last.op = "insert"
    /\ last.branch = "grow"
    /\ Len(entries) >= 2
    /\ last.value # <<>>
    /\ get(DB, last.key) = Some(last.value)

\* C2 (no silent overwrite): an insert(key, value) leaves get(k2) as it was
\* for every other key k2 of the directory, and the range it writes shares
\* no byte with the range of any other entry.
C2_InsertFrame ==
    [][last'.op = "insert" =>
         /\ \A k2 \in Keys \ {last'.key} :
               Has(entries, k2) => get(DB', k2) = get(DB, k2)
         /\ \A i \in 1..Len(entries') :
               entries'[i].key # last'.key =>
                   Disjoint(EntryOf(entries', last'.key), entries'[i])
      ]_vars

\* C2 witness: an insert of a non-empty value went into a directory that
\* holds two other keys with non-empty values
C2_Witness ==
    /\ last.op = "insert"
    /\ last.value # <<>>
    /\ Len(entries) = 3
    /\ \A i \in 1..3 : size(entries[i]) > 0

\* C3 (compaction): a shrink() of a non-empty directory keeps the keys and
\* what get returns for each, leaves no gap, and makes buf_len() the sum of
\* the sizes of the entries.
C3_Compaction ==
    [][(last'.op = "shrink" /\ entries # <<>>) =>
         /\ KeysOf(entries') = KeysOf(entries)
         /\ \A k \in Keys : get(DB', k) = get(DB, k)
         /\ NoGaps(entries')
         /\ buf_len(file') = SumSizes(entries')
      ]_vars

\* C3 witness: a shrink relocated entries of a directory of at least two
\* non-empty values
C3_Witness ==
    /\ last.op = "shrink"
    /\ last.moved
    /\ Len(entries) >= 2
    /\ \A i \in 1..Len(entries) : size(entries[i]) > 0

\* C4 (idempotence): a shrink() directly after a shrink() changes neither
\* the entries, nor the index file's content, nor the data file.
C4_ShrinkIdempotent ==
    [][(last.op = "shrink" /\ last'.op = "shrink") =>
         /\ entries' = entries
         /\ writer'.bytes = writer.bytes
         /\ file' = file
         /\ buf_len(file') = buf_len(file)
      ]_vars

\* C4 witness: a second shrink in a row, on a directory that the first one
\* found non-empty
C4_Witness ==
    /\ last.op = "shrink"
    /\ last.again
    /\ Len(entries) >= 2

\* C5 (remove is a directory operation): after remove(key), get(key) is
\* None, the data file is as it was, get of every other key is as it was,
\* and for an absent key the entries and the index file are as they were.
C5_RemoveFrame ==
    [][last'.op = "remove" =>
         /\ get(DB', last'.key) = None
         /\ file' = file
         /\ \A k2 \in Keys \ {last'.key} : get(DB', k2) = get(DB, k2)
         /\ ~Has(entries, last'.key) =>
               (entries' = entries /\ writer'.bytes = writer.bytes)
      ]_vars

\* C5 witness: a key was removed from a directory that keeps another key,
\* and its bytes are still in the file
C5_Witness ==
    /\ last.op = "remove"
    /\ last.branch = "found"
    /\ entries # <<>>
    /\ buf_len(file) > SumSizes(entries)

\* the insert step of the gap-reuse claims: a remove(k1) of a present key
\* came directly before, and the step is insert(k2, v) of a key that is not
\* in the directory, with v no longer than the gap the remove left
GapReuseStep ==
    /\ last.op = "remove"
    /\ last.branch = "found"
    /\ last'.op = "insert"
    /\ last'.branch = "new"
    /\ FitsGap(last.gap, Len(last'.value))

\* the gap the remove left is the earliest gap that holds n bytes
EarliestFit(n) == FirstFitStart(entries, n) = last.gap[1]

\* C6 as stated, for its central case (a non-empty value and a gap that is
\* followed by an entry): the new entry starts at the start of the gap that
\* the remove left.
C6_GapReuse_Original ==
    [][(GapReuseStep /\ last'.value # <<>> /\ Len(last.gap) = 2) =>
         EntryOf(entries', last'.key).start = last.gap[1]
      ]_vars

\* C6 (gap reuse, amended): the new entry starts at the start of the
\* earliest gap, in ascending offset order, that holds the value; this is
\* the gap the remove left whenever no gap at a lower offset holds the value.
C6_GapReuse ==
    [][GapReuseStep =>
         LET n == Len(last'.value)
             e == EntryOf(entries', last'.key)
         IN  /\ e.start = FirstFitStart(entries, n)
             /\ e.end = e.start + n
             /\ EarliestFit(n) => e.start = last.gap[1]
      ]_vars

\* C6 witness: a non-empty value went to the start of the gap that the
\* remove left between two entries, although a later gap would hold it too
C6_Witness ==
    /\ last.op = "insert"
    /\ last.branch = "new"
    /\ last.value # <<>>
    /\ Len(last.gap) = 2
    /\ last.gap[1] > 0
    /\ EntryOf(entries, last.key).start = last.gap[1]
    /\ Len(entries) = 3
    /\ Position(entries, last.key) = 1

\* C7 (overwrite-shrink): an insert(key, v) of a present key with v no
\* longer than its entry keeps the entry's start and its place in the
\* sequence, makes its range [start, start + len(v)), changes no other
\* entry, and leaves buf_len() and every byte outside the new range, the
\* rest of the old range included, as they were.
C7_OverwriteShrink ==
    [][(last'.op = "insert" /\ last'.branch = "reuse") =>
         LET i   == Position(entries, last'.key)
             old == entries[i + 1]
         IN  /\ entries' = VecSet(entries, i,
                              IndexEntry(last'.key, old.start,
                                         old.start + Len(last'.value)))
             /\ Position(entries', last'.key) = i
             /\ buf_len(file') = buf_len(file)
             /\ \A b \in 1..Len(file) :
                   (b <= old.start \/ b > old.start + Len(last'.value))
                       => file'[b] = file[b]
      ]_vars

\* C7 witness: a value of one byte replaced a longer one and left the rest
\* of the old range as a gap before the next entry
C7_Witness ==
    /\ last.op = "insert"
    /\ last.branch = "reuse"
    /\ Len(last.value) = 1
    /\ LET i == Position(entries, last.key) IN
          /\ i + 2 <= Len(entries)
          /\ entries[i + 2].start > entries[i + 1].end
          /\ entries[i + 1].start > 0

\* C8 (overwrite-grow): an insert(key, v) of a present key with v longer
\* than its entry drops the old entry and places the new one by first fit
\* over the other entries; the other entries keep their ranges and order
\* and the key has exactly one entry.
C8_OverwriteGrow ==
    [][(last'.op = "insert" /\ last'.branch = "grow") =>
         LET rest == Without(entries, last'.key)
             n    == Len(last'.value)
             e    == EntryOf(entries', last'.key)
         IN  /\ Without(entries', last'.key) = rest
             /\ Len(entries') = Len(rest) + 1
             /\ e.start = FirstFitStart(rest, n)
             /\ e.end = e.start + n
      ]_vars

\* C8 witness: the grown value was placed before another entry, in a gap
\* that holds it
C8_Witness ==
    /\ last.op = "insert"
    /\ last.branch = "grow"
    /\ Len(entries) = 3
    /\ Position(entries, last.key) = 1
    /\ EntryOf(entries, last.key).start > 0

\* C9 (emptiness duality): clear_all() leaves is_empty() and
\* is_buf_empty() true; a remove takes exactly its key out of the directory
\* and keeps buf_len(), so removing every key leaves is_empty() true and
\* buf_len() as it was; a shrink() of an empty directory leaves
\* is_buf_empty() true.
C9_EmptinessDuality ==
    [][/\ last'.op = "clear_all" => (is_empty(DB') /\ is_buf_empty(file'))
       /\ last'.op = "remove" =>
             /\ KeysOf(entries') = KeysOf(entries) \ {last'.key}
             /\ is_empty(DB') <=> KeysOf(entries') = {}
             /\ buf_len(file') = buf_len(file)
       /\ (last'.op = "shrink" /\ is_empty(DB)) =>
             (is_empty(DB') /\ is_buf_empty(file'))
      ]_vars

\* C9 witness: the last key was removed, the directory is empty and the
\* data file is not
C9_Witness ==
    /\ last.op = "remove"
    /\ last.branch = "found"
    /\ is_empty(DB)
    /\ ~is_buf_empty(file)

\* C10 (index persistence): after every operation the index file holds
\* exactly the serialization of the entries, and parsing it gives the
\* entries back, in order.
C10_IndexInSync ==
    /\ writer.bytes = index_to_string(entries)
    /\ parse_index(writer.bytes) = Ok(entries)

\* C10 witness: a remove made the directory shorter, the index file was
\* rewritten shorter than it was, and parsing it gives the two entries left
C10_Witness ==
    /\ last.op = "remove"
    /\ last.branch = "found"
    /\ Len(entries) = 2
    /\ entries[1].start > 0
    /\ parse_index(writer.bytes) = Ok(entries)

\* C14 (directory invariants): in every state reached from an empty store
\* by insert, remove, shrink and clear_all, with values of any length, the
\* keys of the entries are pairwise distinct, the entries are in ascending
\* order of start, every entry has start <= end, and every entry ends at or
\* before the start of the next one.
C14_DirectoryInvariants ==
    /\ \A i, j \in 1..Len(entries) : i # j => entries[i].key # entries[j].key
    /\ \A i \in 1..(Len(entries) - 1) : entries[i].start <= entries[i + 1].start
    /\ \A i \in 1..Len(entries) : entries[i].start <= entries[i].end
    /\ \A i \in 1..(Len(entries) - 1) : entries[i].end <= entries[i + 1].start

\* C14 witness: a grown value went into a directory of three entries that
\* holds an empty value and a gap between two entries
C14_Witness ==
    /\ last.op = "insert"
    /\ last.branch = "grow"
    /\ Len(entries) = 3
    /\ \E i \in 1..3 : size(entries[i]) = 0
    /\ \E i \in 1..2 : entries[i + 1].start > entries[i].end

\* the data file when the copy loop of shrink reaches the pair i: the pairs
\* before i have been copied
CopiedBefore(f, olds, news, i) ==
    CopyLoop(f, SubSeq(olds, 1, i - 1), SubSeq(news, 1, i - 1), 1).file

\* the bytes of the range of entry e in the file f
BytesOf(f, e) == SubSeq(f, e.start + 1, e.end)

C17_ShrinkEntries ==
    [][/\ (last'.op = "shrink" /\ entries # <<>>) =>
             LET r    == shrink_entries(DB.index)
                 news == r.self.entries
                 n    == Len(entries)
             IN  /\ r.ret = entries
                 /\ news = entries'
                 /\ Len(news) = n
                 /\ \A i \in 1..n : /\ news[i].key = entries[i].key
                                     /\ size(news[i]) = size(entries[i])
                                     /\ news[i].start <= entries[i].start
                 /\ news[1].start = 0
                 /\ \A i \in 1..(n - 1) : news[i + 1].start = news[i].end
       /\ (entries' = <<>>) =>
             shrink_entries(DB'.index) = [self |-> DB'.index, ret |-> <<>>]
      ]_vars

\* C17 witness: shrink_entries moved entries of a directory of three, one
\* of them of two bytes, and left them without a gap
C17_Witness ==
    /\ last.op = "shrink"
    /\ last.moved
    /\ Len(entries) = 3
    /\ \E i \in 1..3 : size(entries[i]) = 2
    /\ NoGaps(entries)

\* the start that first fit in the sense of C18 gives a new entry of n
\* bytes in the directory es
FirstFitByCases(es, n) ==
    LET pairs == { i \in 1..(Len(es) - 1) : es[i + 1].start - es[i].end >= n } IN
    IF es = <<>> THEN 0
    ELSE IF es[1].start >= n THEN 0
    ELSE IF pairs # {}
    THEN es[CHOOSE i \in pairs : \A j \in pairs : i <= j].end
    ELSE es[Len(es)].end

\* C18 (first fit): alloc_entry(size, key) on an empty directory gives
\* [0, size); on a non-empty one it gives [0, size) when the first entry
\* starts at size or later, else [e.end, e.end + size) for the first
\* adjacent pair (e, next) with next.start - e.end >= size, else
\* [last.end, last.end + size). The entry goes where the starts stay in
\* ascending order, and no other entry changes. (insert calls alloc_entry
\* for a key that is not in the directory and, once the old entry is
\* dropped, for a value longer than the old one.)
C18_FirstFit ==
    [][(last'.op = "insert" /\ last'.branch \in {"new", "grow"}) =>
         \E p \in { Position(entries, last'.key) } :
         \E es \in { IF p >= 0 THEN VecRemove(entries, p) ELSE entries } :
         \E start \in { FirstFitByCases(es, Len(last'.value)) } :
         \E entry \in { IndexEntry(last'.key, start, start + Len(last'.value)) } :
             /\ \E i \in 1..Len(entries') :
                   /\ entries'[i] = entry
                   /\ entries' = VecInsert(es, i - 1, entry)
             /\ \A i \in 1..(Len(entries') - 1) :
                   entries'[i].start <= entries'[i + 1].start
      ]_vars

\* C18 witness: a value of one byte went to the gap before the first entry
\* although two entries that touch lie behind it and the end of the file
\* is free
C18_Witness ==
    /\ last.op = "insert"
    /\ last.branch = "new"
    /\ Len(last.value) = 1
    /\ Len(entries) = 3
    /\ Position(entries, last.key) = 0
    /\ entries[2].start > 1

\* the directory that alloc_entry scans when insert(key, v) with v of n
\* bytes is called on es: <<es>>, with the old entry of key dropped; <<>>
\* when the call does not reach alloc_entry
AllocInput(es, key, n) ==
    LET p == Position(es, key) IN
    IF p < 0 THEN <<es>>
    ELSE IF size(es[p + 1]) < n THEN <<VecRemove(es, p)>>
    ELSE <<>>

\* C19 (no unsigned underflow): in every state reached by insert, remove,
\* shrink and clear_all, every `end - start` of IndexEntry::size, every
\* `next.start - curr.end` that alloc_entry would evaluate for an insert
\* of any key and length, and every subtraction that shrink_entries would
\* evaluate (curr moved, next not yet) has a minuend >= its subtrahend.
C19_NoUnderflow ==
    /\ \A i \in 1..Len(entries) : entries[i].end >= entries[i].start
    /\ \A key \in Keys, n \in 0..(MaxValLen + 1) :
          \A inp \in { AllocInput(entries, key, n) } :
              inp # <<>> =>
                  \A sub \in AllocSubtractions(inp[1], n) : sub[1] >= sub[2]
    /\ \A sub \in ShrinkSubtractions(entries) : sub[1] >= sub[2]

\* C19 witness: an insert scanned the gaps of a directory whose first
\* entry starts at 0 and found one between two entries; the directory has
\* three entries and a shrink of it would subtract for each
C19_Witness ==
    /\ last.op = "insert"
    /\ last.branch = "new"
    /\ Len(last.value) = 1
    /\ Len(entries) = 3
    /\ Position(entries, last.key) = 1
    /\ entries[1].start = 0
    /\ entries[1].end = 1
    /\ AllocSubtractions(VecRemove(entries, 1), 1) # {}
    /\ Cardinality(ShrinkSubtractions(entries)) >= 2

(* ---------------------- the raw file operations ----------------------- *)

RawKeys == { AllKeys[i] : i \in 1..NumRawKeys }

\* db.write_at(start, content)
WriteAt(start, content) ==
    /\ file' = write_at(file, start, content)
    /\ UNCHANGED <<entries, writer>>
    /\ last' = [NoOp EXCEPT !.op = "write_at", !.value = content,
                            !.at = <<start>>]

\* db.read_at(start, size); last.value is the String of an Ok
ReadAt(start, sz) ==
    \E r \in { read_at(file, start, sz) } :
        /\ UNCHANGED <<entries, writer, file>>
        /\ last' = [NoOp EXCEPT !.op = "read_at", !.at = <<start, sz>>,
                                !.branch = IF r = Err THEN "err" ELSE "ok",
                                !.value = IF r = Err THEN <<>> ELSE r[2]]

\* db.set_buf_len(len)
SetBufLen(len) ==
    /\ file' = set_buf_len(file, len)
    /\ UNCHANGED <<entries, writer>>
    /\ last' = [NoOp EXCEPT !.op = "set_buf_len", !.at = <<len>>]

NextRaw ==
    /\ Running
    /\ \/ \E key \in RawKeys, value \in Values : Insert(key, value)
       \/ \E key \in RawKeys : Remove(key)
       \/ ClearAll
       \/ Shrink
       \/ \E start \in 0..MaxRawLen, content \in Values : WriteAt(start, content)
       \/ \E start \in 0..MaxRawLen, sz \in 0..MaxRawLen : ReadAt(start, sz)
       \/ \E len \in 0..MaxRawLen : SetBufLen(len)
    /\ buf_len(file') <= MaxRawLen
    /\ Sequential

SpecRaw == Init /\ [][NextRaw]_vars

\* the directory holds no range that ends behind the end of the data file
LengthCovers(es, f) == \A i \in 1..Len(es) : es[i].end <= buf_len(f)

\* C12 (raw positional I/O): a write_at(start, content) of a non-empty
\* content, at a start inside, at or beyond the end of the file, leaves the
\* entries and the index file as they were and makes buf_len() the larger of
\* the old buf_len() and start + len(content); a read_at(start,
\* len(content)) directly after it returns content.
C12_RawReadBack ==
    [][/\ (last'.op = "write_at" /\ last'.value # <<>>) =>
             LET start   == last'.at[1]
                 content == last'.value
             IN  /\ read_at(file', start, Len(content)) = Ok(content)
                 /\ entries' = entries
                 /\ writer' = writer
                 /\ buf_len(file') = Max(buf_len(file), start + Len(content))
       /\ (/\ last.op = "write_at" /\ last.value # <<>>
           /\ last'.op = "read_at"
           /\ last'.at = <<last.at[1], Len(last.value)>>) =>
             (last'.branch = "ok" /\ last'.value = last.value)
      ]_vars

\* C12 witness: a two-byte character written beyond the end of a non-empty
\* file, over a directory that holds an entry, was read back
C12_Witness ==
    /\ last.op = "read_at"
    /\ last.branch = "ok"
    /\ last.value = <<195, 169>>
    /\ last.at = <<1, 2>>
    /\ file[1] = 0
    /\ entries # <<>>

\* C13 (read past the end): a read_at(start, size) with size > 0 fails
\* exactly when start + size exceeds buf_len(), and a failed read_at leaves
\* the entries, the index file and the data file as they were.
C13_ReadPastEnd ==
    [][(last'.op = "read_at" /\ last'.at[2] > 0) =>
         /\ (last'.branch = "err") <=> (last'.at[1] + last'.at[2] > buf_len(file))
         /\ (last'.branch = "err") =>
               /\ entries' = entries
               /\ writer' = writer
               /\ file' = file
               /\ buf_len(file') = buf_len(file)
      ]_vars

\* C13 witness: a read that starts inside a non-empty file and ends one
\* byte behind its end failed
C13_Witness ==
    /\ last.op = "read_at"
    /\ last.branch = "err"
    /\ last.at[1] < buf_len(file)
    /\ last.at[1] + last.at[2] = buf_len(file) + 1
    /\ entries # <<>>

\* C15 as stated: in every state reached through insert, remove, clear_all,
\* shrink, write_at and set_buf_len, the data file is at least as long as
\* the largest end of an entry.
C15_FileLength_Original == LengthCovers(entries, file)

\* C15 (file length, amended): every insert, remove, clear_all, shrink,
\* write_at and read_at that starts with a data file at least as long as
\* the largest end of an entry ends with one; set_buf_len(len) makes the
\* length len and leaves the entries as they are, whatever they hold.
C15_FileLength ==
    [][/\ (last'.op # "set_buf_len" /\ LengthCovers(entries, file)) =>
             LengthCovers(entries', file')
       /\ (last'.op = "set_buf_len") =>
             /\ buf_len(file') = last'.at[1]
             /\ entries' = entries
             /\ writer' = writer
      ]_vars

\* C15 witness: set_buf_len cut the data file to a length below the end of
\* an entry
C15_Witness ==
    /\ last.op = "set_buf_len"
    /\ entries # <<>>
    /\ buf_len(file) = last.at[1]
    /\ ~LengthCovers(entries, file)

(* ------------------------- failing physical writes ------------------- *)

\* db.insert(key, value) whose write_at fails after k bytes: the unwrap
\* panics
InsertFail(key, value, k) ==
    \E self \in { insert_write_fails(DB, key, value, k) } :
        /\ buf_len(self.file) <= MaxFileLen
        /\ Install(self)
        /\ last' = [NoOp EXCEPT !.op = "insert", !.key = key, !.value = value,
                                !.branch = "panic", !.at = <<k>>]

\* db.shrink() whose write_at for the pair j fails after k bytes: the
\* unwrap panics
ShrinkFail(j, k) ==
    /\ j <= Len(entries)
    /\ \E r \in { shrink_entries(DB.index) } :
          /\ r.ret[j].start # r.self.entries[j].start
          /\ k < size(r.ret[j])
    /\ Install(shrink_write_fails(DB, j, k))
    /\ last' = [NoOp EXCEPT !.op = "shrink", !.branch = "panic", !.at = <<j, k>>]

\* after a panic the process is started again: DataBase::new opens the
\* data file and Index::new reads the index file
Restart ==
    /\ ~Running
    /\ \E r \in { index_new(writer.bytes) } :
          /\ r # Panic
          /\ entries' = r[2].entries
          /\ writer' = r[2].writer
    /\ UNCHANGED file
    /\ last' = [NoOp EXCEPT !.branch = "restart"]

NextFail ==
    \/ /\ Running
       /\ \/ \E key \in RawKeys, value \in Values : Insert(key, value)
          \/ \E key \in RawKeys : Remove(key)
          \/ ClearAll
          \/ Shrink
          \/ \E key \in RawKeys, value \in Values :
                \E k \in 0..(Len(value) - 1) : InsertFail(key, value, k)
          \/ \E j \in 1..NumRawKeys, k \in 0..(MaxValLen - 1) : ShrinkFail(j, k)
       /\ buf_len(file') <= MaxRawLen
       /\ Sequential
    \/ (Restart /\ Sequential)

SpecFail == Init /\ [][NextFail]_vars

\* C20 (no rollback on a failed write): insert and shrink update the
\* entries and rewrite the index file before they write the data, so when
\* that write fails the entries, in memory and in the index file, are those
\* of the directory step, the new range(s) included, not those from before
\* the call; a start of the process afterwards reads them back.
C20_NoRollback ==
    [][/\ (last'.op = "insert" /\ last'.branch = "panic") =>
             \E r \in { insert_entry(DB.index, Len(last'.value), last'.key) } :
                 /\ entries' = r.self.entries
                 /\ EntryOf(entries', last'.key) = r.ret
                 /\ writer'.bytes = index_to_string(entries')
                 /\ Branch(entries, last'.key, Len(last'.value)) # "reuse"
                       => entries' # entries
       /\ (last'.op = "shrink" /\ last'.branch = "panic" /\ last'.at # <<>>) =>
             \E r \in { shrink_entries(DB.index) } :
                 /\ entries' = r.self.entries
                 /\ writer'.bytes = index_to_string(entries')
                 /\ entries' # entries
                 /\ NoGaps(entries')
       /\ (last'.branch = "restart") =>
             (entries' = entries /\ file' = file)
      ]_vars

\* C20 witness: the process was started again after an insert of a new key
\* whose write failed; the directory holds the range of the key, beyond
\* the end of the data file
C20_Witness ==
    /\ last.branch = "restart"
    /\ Len(entries) = 2
    /\ entries[2].end > buf_len(file)
    /\ get(DB, entries[2].key) = Panic

(* --------------------- two threads on one DataBase ------------------- *)

\* thread r calls db.read_at(start, sz): `self.reader.lock()`
ReadCall(start, sz) ==
    /\ threads.r.pc = "idle"
    /\ threads.reader_lock = "none"
    /\ threads' = [threads EXCEPT !.reader_lock = "r",
                                  !.r = [pc |-> "locked", start |-> start,
                                         size |-> sz, ret |-> <<>>]]
    /\ UNCHANGED <<file, cursor>>

\* `br.seek(SeekFrom::Start(start))`: the BufReader drops its buffer and
\* seeks the file
ReadSeek ==
    /\ threads.r.pc = "locked"
    /\ cursor' = threads.r.start
    /\ threads' = [threads EXCEPT !.r.pc = "seeked"]
    /\ UNCHANGED file

\* `br.read_exact(&mut v)` at the offset the file description has now, the
\* String is made and the guard is dropped
ReadExact ==
    /\ threads.r.pc = "seeked"
    /\ threads' = [threads EXCEPT !.reader_lock = "none",
                                  !.r.pc = "done",
                                  !.r.ret = read_exact(file, cursor, threads.r.size)]
    /\ cursor' = read_exact_offset(file, cursor)
    /\ UNCHANGED file

\* read_at has returned to its caller
ReadReturn ==
    /\ threads.r.pc = "done"
    /\ threads' = [threads EXCEPT !.r = IdleReader]
    /\ UNCHANGED <<file, cursor>>

\* thread w calls db.write_at(start, content): `self.writer.lock()`
WriteCall(start, content) ==
    /\ threads.w.pc = "idle"
    /\ threads.writer_lock = "none"
    /\ threads' = [threads EXCEPT !.writer_lock = "w",
                                  !.w = [pc |-> "locked", start |-> start,
                                         content |-> content]]
    /\ UNCHANGED <<file, cursor>>

\* `bw.seek(SeekFrom::Start(start))`: the BufWriter, its buffer empty,
\* seeks the file
WriteSeek ==
    /\ threads.w.pc = "locked"
    /\ cursor' = threads.w.start
    /\ threads' = [threads EXCEPT !.w.pc = "seeked"]
    /\ UNCHANGED file

\* `bw.write_all(..)` fills the buffer and `bw.flush()` writes it at the
\* offset the file description has now; the guard is dropped
WriteFlush ==
    /\ threads.w.pc = "seeked"
    /\ file' = FileWrite(file, cursor, threads.w.content, 0)
    /\ cursor' = cursor + Len(threads.w.content)
    /\ threads' = [threads EXCEPT !.writer_lock = "none", !.w.pc = "done"]

\* write_at has returned to its caller
WriteReturn ==
    /\ threads.w.pc = "done"
    /\ threads' = [threads EXCEPT !.w = IdleWriter]
    /\ UNCHANGED <<file, cursor>>

NextConc ==
    /\ \/ \E start \in 0..MaxConcLen, sz \in 1..MaxConcLen : ReadCall(start, sz)
       \/ ReadSeek
       \/ ReadExact
       \/ ReadReturn
       \/ \E start \in 0..MaxConcLen, content \in Values \ {<<>>} :
             WriteCall(start, content)
       \/ WriteSeek
       \/ WriteFlush
       \/ WriteReturn
    /\ buf_len(file') <= MaxConcLen
    /\ UNCHANGED <<entries, writer, last, clone>>

SpecConc == Init /\ [][NextConc]_vars

Copies == {1, 2}

Copy(c) == [entries |-> IF c = 1 THEN entries ELSE clone[1], writer |-> writer]

\* mutant of SetCopy: the two copies share one Vec of entries
SetCopy_shared(c, self, changed) ==
    /\ entries' = self.entries
    /\ writer' = self.writer
    /\ clone' = <<self.entries,
                  IF changed THEN clone[2] \cup {c} ELSE clone[2]>>

\* copy c becomes self: its own entries, and the writer of both copies
SetCopy(c, self, changed) ==
    /\ entries' = IF c = 1 THEN self.entries ELSE entries
    /\ writer' = self.writer
    /\ clone' = <<IF c = 2 THEN self.entries ELSE clone[1],
                  IF changed THEN clone[2] \cup {c} ELSE clone[2]>>

\* index.clone(); an earlier clone is dropped
CloneIndex ==
    /\ clone' = <<entries, {}>>
    /\ last' = [NoOp EXCEPT !.op = "clone"]
    /\ UNCHANGED <<entries, writer>>

\* insert_entry(entry_size, key) on copy c
InsertEntry(c, key, entry_size) ==
    /\ clone # <<>>
    /\ \E r \in { insert_entry(Copy(c), entry_size, key) } :
          /\ r.ret.end <= MaxRawLen
          /\ SetCopy(c, r.self, TRUE)
          /\ last' = [NoOp EXCEPT
                        !.op = "insert_entry", !.key = key, !.at = <<c>>,
                        !.branch = Branch(Copy(c).entries, key, entry_size)]

\* remove_entry(key) on copy c
RemoveEntry(c, key) ==
    /\ clone # <<>>
    /\ \E r \in { remove_entry(Copy(c), key) } :
          /\ SetCopy(c, r.self, r.ret # None)
          /\ last' = [NoOp EXCEPT
                        !.op = "remove_entry", !.key = key, !.at = <<c>>,
                        !.branch = IF r.ret # None THEN "found" ELSE "absent"]

NextClone ==
    /\ \/ CloneIndex
       \/ \E c \in Copies, key \in RawKeys, entry_size \in 0..MaxValLen :
             InsertEntry(c, key, entry_size)
       \/ \E c \in Copies, key \in RawKeys : RemoveEntry(c, key)
    /\ UNCHANGED <<file, cursor, threads>>

SpecClone == Init /\ [][NextClone]_vars

\* the step is a call on copy c that wrote the index file, made when the
\* other copy had changed since the clone
MutationAfterOther(c) ==
    /\ clone # <<>>
    /\ (3 - c) \in clone[2]
    /\ last'.op \in {"insert_entry", "remove_entry"}
    /\ last'.at = <<c>>
    /\ last'.branch # "absent"

\* a call on copy c leaves every get_entry of the other copy as it was
NotVisible(c) ==
    (clone # <<>> /\ last'.op \in {"insert_entry", "remove_entry"}
       /\ last'.at = <<c>>) =>
        /\ Copy(3 - c).entries' = Copy(3 - c).entries
        /\ \A key \in RawKeys :
              get_entry(Copy(3 - c), key)' = get_entry(Copy(3 - c), key)

\* C22 as stated (cloned Index): a call through one copy is not visible to
\* get_entry on the other copy; a later mutation through the other copy
\* rewrites the index file from its own entries, and after it the file no
\* longer equals the serialization of the first copy's entries.
C22_ClonedIndex_Original ==
    [][\A c \in Copies :
         /\ NotVisible(c)
         /\ MutationAfterOther(c) =>
               /\ writer'.bytes = index_to_string(Copy(c).entries')
               /\ writer'.bytes # index_to_string(Copy(3 - c).entries')
      ]_vars

\* C22 (cloned Index): a call through one copy is not visible to get_entry
\* on the other copy; a later mutation through the other copy rewrites the
\* index file from its own entries, and after it the file differs from the
\* serialization of the first copy's entries exactly when the entries of the
\* two copies differ.
C22_ClonedIndex ==
    [][\A c \in Copies :
         /\ NotVisible(c)
         /\ MutationAfterOther(c) =>
               /\ writer'.bytes = index_to_string(Copy(c).entries')
               /\ (writer'.bytes # index_to_string(Copy(3 - c).entries'))
                     <=> (Copy(c).entries' # Copy(3 - c).entries')
      ]_vars

\* copy 1 changed, then copy 2 wrote the file from entries that differ from
\* those of copy 1: get_entry of copy 1 does not find the key copy 2 inserted
C22_Witness ==
    /\ clone # <<>>
    /\ clone[2] = {1, 2}
    /\ last.op = "insert_entry"
    /\ last.at = <<2>>
    /\ entries # <<>>
    /\ get_entry(Copy(1), last.key) = None
    /\ writer.bytes = index_to_string(clone[1])
    /\ writer.bytes # index_to_string(entries)

(* ------------------------------ db.get ------------------------------- *)

\* db.get(key): the entry is looked up and its range is read; neither the
\* Index nor a file is written
Get(key) ==
    \E r \in { get(DB, key) } :
        /\ last' = [NoOp EXCEPT
                      !.op = "get", !.key = key,
                      !.value = IF r[1] = "Some" THEN r[2] ELSE <<>>,
                      !.branch = IF r = Panic THEN "panic"
                                 ELSE IF r = None THEN "absent" ELSE "found"]
        /\ UNCHANGED <<entries, writer, file>>

NextGet ==
    /\ Running
    /\ \/ \E key \in Keys, value \in Values : Insert(key, value)
       \/ \E key \in Keys : Remove(key)
       \/ ClearAll
       \/ Shrink
       \/ \E key \in Keys : Get(key)
    /\ buf_len(file') <= MaxGetLen
    /\ Sequential

SpecGet == Init /\ [][NextGet]_vars

\* C23 (get never fails on a live key): in every state that insert, remove,
\* shrink, clear_all and get lead to, a get(key) of a key of the directory
\* completes without an I/O error and returns Some of a string whose byte
\* length is the size of the entry, a get(key) of any other key returns
\* None, and the get changes neither the directory nor the index file nor
\* the data file. (Get is enabled for every key in every such state.)
C23_GetLiveKey ==
    [][(last'.op = "get") =>
         /\ UNCHANGED <<entries, writer, file>>
         /\ last'.branch = IF Has(entries, last'.key) THEN "found"
                            ELSE "absent"
         /\ Has(entries, last'.key) =>
               Len(last'.value) = size(EntryOf(entries, last'.key))
      ]_vars

\* a get of a two-byte value that lies behind another entry, and a key that
\* is not in the directory
C23_Witness ==
    /\ last.op = "get"
    /\ last.branch = "found"
    /\ Len(last.value) = 2
    /\ EntryOf(entries, last.key).start > 0
    /\ \E key \in Keys : ~Has(entries, key) /\ get(DB, key) = None

(* ------------------- the Index on its own: persistence ---------------- *)

\* keys for the Index on its own: those of the callers, the empty key and
\* a key that ends in a blank; none holds '=', '_' or a newline
CodecKeys == Keys \cup { <<>>, <<"x", " ">> }

\* offsets of one and of two digits
CodecOffsets == {0, 1, MaxOffset - 1, MaxOffset}

CodecEntry == { IndexEntry(k, s, e) : k \in CodecKeys, s \in CodecOffsets,
                                      e \in CodecOffsets }

\* every entry sequence of at most MaxCodecLen entries, whether sorted or
\* not and whether its keys are distinct or not
CodecEntries == UNION { [1..n -> CodecEntry] : n \in 0..MaxCodecLen }

\* index.set_all_entries(es), the one call of a run on a new Index
SetAllEntries(es) ==
    /\ last.op = "new"
    /\ \E self \in { set_all_entries([entries |-> entries, writer |-> writer], es) } :
          /\ entries' = self.entries
          /\ writer' = self.writer
    /\ UNCHANGED file
    /\ last' = [NoOp EXCEPT !.op = "set_all_entries"]

\* the process ends and Index::new opens the index file again
Reopen ==
    \E r \in { index_new(writer.bytes) } :
        /\ last.op = "set_all_entries"
        /\ IF r = Panic
           THEN /\ UNCHANGED <<entries, writer>>
                /\ last' = [NoOp EXCEPT !.op = "reopen", !.branch = "panic"]
           ELSE /\ entries' = r[2].entries
                /\ writer' = r[2].writer
                /\ last' = [NoOp EXCEPT !.op = "reopen"]
        /\ UNCHANGED file

NextCodec ==
    /\ Running
    /\ \/ (last.op = "new" /\ \E es \in CodecEntries : SetAllEntries(es))
       \/ Reopen
    /\ Sequential

SpecCodec == Init /\ [][NextCodec]_vars

\* C11 (serialization round trip): for every entry sequence whose keys hold
\* no '=', '_' or newline, parsing its serialization gives an equal ordered
\* sequence, so that opening the index file again yields the entries that
\* were written; the empty sequence serializes to the empty string, which
\* parses to the empty sequence.
C11_SerializationRoundTrip ==
    [][/\ parse_index(index_to_string(entries')) = Ok(entries')
       /\ (entries' = <<>>) => /\ index_to_string(entries') = <<>>
                               /\ parse_index(<<>>) = Ok(<<>>)
       /\ (last'.op = "reopen") => (last'.branch # "panic" /\ entries' = entries)
      ]_vars

\* C11 witness: an index file of two lines with offsets of two digits, an
\* empty key and an end below its start was opened again
C11_Witness ==
    /\ last.op = "reopen"
    /\ Len(entries) = 2
    /\ entries[1].key = <<>>
    /\ entries[1].start = MaxOffset
    /\ entries[2].end < entries[2].start
    /\ parse_index(writer.bytes) = Ok(entries)

====
